---- MODULE Spec2Model ----
(***************************************************************************)
(* Circuit breaker of agentic-kit's WASM safety kernel (wasm/src/lib.rs).  *)
(* One thread-local CircuitBreakerState, BREAKER, is driven by the         *)
(* exported functions init_breaker, allow_request, record_success,         *)
(* record_failure, force_open and reset_breaker.  The host that calls      *)
(* them is modelled by Next, which calls any function with any argument.   *)
(***************************************************************************)
EXTENDS Integers, Sequences, FiniteSets, TLC

(***************************************************************************)
(* Bounds of the model.                                                    *)
(***************************************************************************)
\* largest failure_threshold the host passes to init_breaker
MaxThreshold == 2
\* largest recovery_timeout (seconds) the host passes to init_breaker
MaxTimeout == 1
\* the host's timestamps are the multiples 0 .. MaxTick of TimeStep ms
MaxTick == 4
TimeStep == 500
\* failure_count and success_count are driven no further than MaxCount
MaxCount == 3
\* a host that reports every outcome has at most MaxPending requests in flight
MaxPending == 2

Thresholds == 0..MaxThreshold
Timeouts == 0..MaxTimeout
Times == {k * TimeStep : k \in 0..MaxTick}

(***************************************************************************)
(* Types of the program.                                                   *)
(***************************************************************************)
\* enum BreakerState
Closed == "closed"
Open == "open"
HalfOpen == "half_open"
BreakerState == {Closed, Open, HalfOpen}

\* Option<u64>: None is the empty sequence, Some(t) the sequence <<t>>
None == <<>>
Some(t) == <<t>>

\* Stand-in for 2^64, the modulus of u64 arithmetic in a build without
\* overflow checks.  TLC's integers are 32 bits wide; 2^30 is, like 2^64,
\* larger than every timestamp and every timeout of the model.
U64Modulus == 1073741824

\* The fixed cap on trial admissions and on successes needed to close.
half_open_max == 3

\* CircuitBreakerState::new(failure_threshold, recovery_timeout)
new(threshold, timeout) ==
    [state |-> Closed,
     failure_count |-> 0,
     success_count |-> 0,
     failure_threshold |-> threshold,
     recovery_timeout |-> timeout,
     last_failure_time |-> None,
     half_open_calls |-> 0,
     half_open_max |-> half_open_max]

VARIABLES
    BREAKER,      \* the thread-local CircuitBreakerState
    op,           \* name of the exported function called last ("new" at first)
    args,         \* the arguments of that call
    ret,          \* its return value: <<b>> for allow_request, <<>> otherwise
    panicked,     \* TRUE once a call has panicked on arithmetic overflow
    pre_state,    \* BREAKER.state before that call
    prev_op,      \* the function called before that call
    fail_run,     \* record_failure calls since BREAKER was Closed with
                  \* failure_count = 0, only allow_request in between; else -1
    succ_run,     \* <<n, s>>: n consecutive record_success calls since a
                  \* HalfOpen state with success_count = s; <<>> if none
    admitted,     \* allow_request calls that returned true in the current
                  \* continuous stay in HalfOpen
    fail_mix,     \* as fail_run, with record_success calls allowed in
                  \* between as well
    pending       \* requests a host that reports every outcome has been
                  \* admitted and has not reported yet (HostSpec only)

vars == <<BREAKER, op, args, ret, panicked, pre_state, prev_op,
          fail_run, succ_run, admitted, fail_mix, pending>>

(***************************************************************************)
(* The exported functions, as functions of the breaker b they borrow.      *)
(***************************************************************************)
\* init_breaker that forgets to close the breaker
init_breaker_keeps_state(b, threshold, timeout) ==
    [b EXCEPT !.failure_threshold = threshold,
              !.recovery_timeout = timeout,
              !.failure_count = 0,
              !.success_count = 0]

\* init_breaker that keeps the counters
init_breaker_keeps_counts(b, threshold, timeout) ==
    [b EXCEPT !.failure_threshold = threshold,
              !.recovery_timeout = timeout,
              !.state = Closed]

\* init_breaker(failure_threshold, recovery_timeout)
init_breaker(b, threshold, timeout) ==
    [b EXCEPT !.failure_threshold = threshold,
              !.recovery_timeout = timeout,
              !.state = Closed,
              !.failure_count = 0,
              !.success_count = 0]

\* u64 subtraction as a build without overflow checks computes it
wrapping_sub(x, y) == (x - y) % U64Modulus

\* let elapsed_secs = (current_time_ms - last_failure) / 1000;
elapsed_secs(current_time_ms, last_failure) ==
    wrapping_sub(current_time_ms, last_failure) \div 1000

\* current_time_ms - last_failure is evaluated and is below zero
sub_overflows(b, current_time_ms) ==
    /\ b.state = Open
    /\ b.last_failure_time # None
    /\ current_time_ms < b.last_failure_time[1]

\* the condition under which allow_request leaves Open
recovery_due(b, current_time_ms) ==
    /\ b.state = Open
    /\ b.last_failure_time # None
    /\ elapsed_secs(current_time_ms, b.last_failure_time[1]) >= b.recovery_timeout

\* check_recovery that does not reset half_open_calls
check_recovery_keeps_calls(b, current_time_ms) ==
    IF recovery_due(b, current_time_ms)
    THEN [b EXCEPT !.state = HalfOpen,
                   !.success_count = 0]
    ELSE b

\* check_recovery that does not reset success_count
check_recovery_keeps_successes(b, current_time_ms) ==
    IF recovery_due(b, current_time_ms)
    THEN [b EXCEPT !.state = HalfOpen,
                   !.half_open_calls = 0]
    ELSE b

\* allow_request, first part: "Check for recovery from Open state"
check_recovery(b, current_time_ms) ==
    IF recovery_due(b, current_time_ms)
    THEN [b EXCEPT !.state = HalfOpen,
                   !.half_open_calls = 0,
                   !.success_count = 0]
    ELSE b

\* admit with half_open_calls <= half_open_max for <
admit_inclusive(b) ==
    CASE b.state = Closed -> [breaker |-> b, result |-> TRUE]
      [] b.state = Open -> [breaker |-> b, result |-> FALSE]
      [] b.state = HalfOpen ->
            IF b.half_open_calls <= b.half_open_max
            THEN [breaker |-> [b EXCEPT !.half_open_calls = @ + 1],
                  result |-> TRUE]
            ELSE [breaker |-> b, result |-> FALSE]

\* allow_request, second part: match breaker.state { ... }
admit(b) ==
    CASE b.state = Closed -> [breaker |-> b, result |-> TRUE]
      [] b.state = Open -> [breaker |-> b, result |-> FALSE]
      [] b.state = HalfOpen ->
            IF b.half_open_calls < b.half_open_max
            THEN [breaker |-> [b EXCEPT !.half_open_calls = @ + 1],
                  result |-> TRUE]
            ELSE [breaker |-> b, result |-> FALSE]

\* allow_request(current_time_ms) -> bool
allow_request(b, current_time_ms) == admit(check_recovery(b, current_time_ms))

\* record_success that does not clear failure_count when it closes
record_success_keeps_failures(b) ==
    LET b1 == [b EXCEPT !.success_count = @ + 1]
    IN  IF b1.state = HalfOpen /\ b1.success_count >= b1.half_open_max
        THEN [b1 EXCEPT !.state = Closed,
                        !.success_count = 0]
        ELSE b1

\* record_success with success_count > half_open_max for >=
record_success_strict(b) ==
    LET b1 == [b EXCEPT !.success_count = @ + 1]
    IN  IF b1.state = HalfOpen /\ b1.success_count > b1.half_open_max
        THEN [b1 EXCEPT !.state = Closed,
                        !.failure_count = 0,
                        !.success_count = 0]
        ELSE b1

\* record_success that closes on enough successes in any state
record_success_any_state(b) ==
    LET b1 == [b EXCEPT !.success_count = @ + 1]
    IN  IF b1.success_count >= b1.half_open_max
        THEN [b1 EXCEPT !.state = Closed,
                        !.failure_count = 0,
                        !.success_count = 0]
        ELSE b1

\* record_success that clears failure_count on a success in Closed
record_success_clears_failures(b) ==
    LET b1 == [b EXCEPT !.success_count = @ + 1]
    IN  IF b1.state = HalfOpen /\ b1.success_count >= b1.half_open_max
        THEN [b1 EXCEPT !.state = Closed,
                        !.failure_count = 0,
                        !.success_count = 0]
        ELSE IF b1.state = Closed
             THEN [b1 EXCEPT !.failure_count = 0]
             ELSE b1

\* record_success()
record_success(b) ==
    LET b1 == [b EXCEPT !.success_count = @ + 1]
    IN  IF b1.state = HalfOpen /\ b1.success_count >= b1.half_open_max
        THEN [b1 EXCEPT !.state = Closed,
                        !.failure_count = 0,
                        !.success_count = 0]
        ELSE b1

\* record_failure with failure_count > failure_threshold for >=
record_failure_strict(b, current_time_ms) ==
    LET b1 == [b EXCEPT !.failure_count = @ + 1,
                        !.last_failure_time = Some(current_time_ms)]
    IN  IF b1.state = HalfOpen
        THEN [b1 EXCEPT !.state = Open]
        ELSE IF b1.failure_count > b1.failure_threshold
             THEN [b1 EXCEPT !.state = Open]
             ELSE b1

\* record_failure without the HalfOpen branch
record_failure_threshold_only(b, current_time_ms) ==
    LET b1 == [b EXCEPT !.failure_count = @ + 1,
                        !.last_failure_time = Some(current_time_ms)]
    IN  IF b1.failure_count >= b1.failure_threshold
        THEN [b1 EXCEPT !.state = Open]
        ELSE b1

\* record_failure for which a zero threshold means "never trip"
record_failure_zero_disabled(b, current_time_ms) ==
    LET b1 == [b EXCEPT !.failure_count = @ + 1,
                        !.last_failure_time = Some(current_time_ms)]
    IN  IF b1.state = HalfOpen
        THEN [b1 EXCEPT !.state = Open]
        ELSE IF b1.failure_threshold > 0
                /\ b1.failure_count >= b1.failure_threshold
             THEN [b1 EXCEPT !.state = Open]
             ELSE b1

\* record_failure that does not stamp last_failure_time
record_failure_no_stamp(b, current_time_ms) ==
    LET b1 == [b EXCEPT !.failure_count = @ + 1]
    IN  IF b1.state = HalfOpen
        THEN [b1 EXCEPT !.state = Open]
        ELSE IF b1.failure_count >= b1.failure_threshold
             THEN [b1 EXCEPT !.state = Open]
             ELSE b1

\* record_failure(current_time_ms)
record_failure(b, current_time_ms) ==
    LET b1 == [b EXCEPT !.failure_count = @ + 1,
                        !.last_failure_time = Some(current_time_ms)]
    IN  IF b1.state = HalfOpen
        THEN [b1 EXCEPT !.state = Open]
        ELSE IF b1.failure_count >= b1.failure_threshold
             THEN [b1 EXCEPT !.state = Open]
             ELSE b1

\* force_open that does not stamp last_failure_time
force_open_keeps_time(b, current_time_ms) ==
    [b EXCEPT !.state = Open]

\* force_open that also zeroes the counters
force_open_clears_counts(b, current_time_ms) ==
    [b EXCEPT !.state = Open,
              !.last_failure_time = Some(current_time_ms),
              !.failure_count = 0,
              !.success_count = 0,
              !.half_open_calls = 0]

\* force_open(current_time_ms)
force_open(b, current_time_ms) ==
    [b EXCEPT !.state = Open,
              !.last_failure_time = Some(current_time_ms)]

\* reset_breaker that does not clear half_open_calls
reset_breaker_keeps_calls(b) ==
    [b EXCEPT !.state = Closed,
              !.failure_count = 0,
              !.success_count = 0,
              !.last_failure_time = None]

\* reset_breaker that rebuilds the breaker with the default thresholds
reset_breaker_restores_defaults(b) == new(5, 60)

\* reset_breaker()
reset_breaker(b) ==
    [b EXCEPT !.state = Closed,
              !.failure_count = 0,
              !.success_count = 0,
              !.half_open_calls = 0,
              !.last_failure_time = None]

(***************************************************************************)
(* The host: one call of an exported function per step.                    *)
(***************************************************************************)
\* static BREAKER = RefCell::new(CircuitBreakerState::new(5, 60));
Init ==
    /\ BREAKER = new(5, 60)
    /\ op = "new"
    /\ args = <<5, 60>>
    /\ prev_op = "none"
    /\ ret = <<>>
    /\ panicked = FALSE
    /\ pre_state = Closed
    /\ fail_run = 0
    /\ succ_run = <<>>
    /\ admitted = 0
    /\ fail_mix = 0
    /\ pending = 0

\* The bookkeeping of a call name(a) that took BREAKER to b2 and returned r.
Step(name, a, b2, r) ==
    /\ ~panicked
    /\ BREAKER' = b2
    /\ op' = name
    /\ args' = a
    /\ ret' = r
    /\ panicked' = FALSE
    /\ pre_state' = BREAKER.state
    /\ prev_op' = op
    /\ fail_run' =
         IF name = "record_failure"
         THEN (IF fail_run >= 0 THEN fail_run + 1 ELSE -1)
         ELSE IF name = "allow_request"
              THEN fail_run
              ELSE IF b2.state = Closed /\ b2.failure_count = 0 THEN 0 ELSE -1
    /\ succ_run' =
         IF name = "record_success"
         THEN (IF succ_run # <<>> /\ succ_run[1] < half_open_max
               THEN <<succ_run[1] + 1, succ_run[2]>>
               ELSE <<>>)
         ELSE IF b2.state = HalfOpen THEN <<0, b2.success_count>> ELSE <<>>
    /\ admitted' =
         IF b2.state # HalfOpen
         THEN 0
         ELSE (IF BREAKER.state = HalfOpen THEN admitted ELSE 0)
              + (IF r = <<TRUE>> THEN 1 ELSE 0)
    /\ fail_mix' =
         IF b2.state = Closed /\ b2.failure_count = 0
         THEN 0
         ELSE IF name = "record_failure"
              THEN (IF fail_mix >= 0 THEN fail_mix + 1 ELSE -1)
              ELSE IF name \in {"allow_request", "record_success"}
                   THEN fail_mix
                   ELSE -1

\* A call by a host that keeps no account of the requests in flight.
Call(name, a, b2, r) ==
    /\ Step(name, a, b2, r)
    /\ UNCHANGED pending

InitBreaker ==
    \E f \in Thresholds, r \in Timeouts :
        Call("init_breaker", <<f, r>>, init_breaker(BREAKER, f, r), <<>>)

AllowRequest ==
    \E t \in Times :
        LET out == allow_request(BREAKER, t)
        IN  Call("allow_request", <<t>>, out.breaker, <<out.result>>)

\* A build with overflow checks panics in allow_request when the subtraction
\* goes below zero; nothing has been written to BREAKER by then.
AllowRequestPanic ==
    \E t \in Times :
        /\ ~panicked
        /\ sub_overflows(BREAKER, t)
        /\ panicked' = TRUE
        /\ op' = "allow_request"
        /\ args' = <<t>>
        /\ ret' = <<>>
        /\ pre_state' = BREAKER.state
        /\ prev_op' = op
        /\ UNCHANGED <<BREAKER, fail_run, succ_run, admitted, fail_mix,
                       pending>>

RecordSuccess ==
    /\ BREAKER.success_count < MaxCount
    /\ Call("record_success", <<>>, record_success(BREAKER), <<>>)

RecordFailure ==
    \E t \in Times :
        /\ BREAKER.failure_count < MaxCount
        /\ Call("record_failure", <<t>>, record_failure(BREAKER, t), <<>>)

ForceOpen ==
    \E t \in Times :
        Call("force_open", <<t>>, force_open(BREAKER, t), <<>>)

ResetBreaker ==
    Call("reset_breaker", <<>>, reset_breaker(BREAKER), <<>>)

Next ==
    \/ InitBreaker
    \/ AllowRequest
    \/ AllowRequestPanic
    \/ RecordSuccess
    \/ RecordFailure
    \/ ForceOpen
    \/ ResetBreaker

Spec == Init /\ [][Next]_vars

(***************************************************************************)
(* A host that follows the protocol of the breaker: it calls allow_request *)
(* before each protected operation and reports exactly one outcome,        *)
(* record_success or record_failure, for every request that was admitted.  *)
(* pending is the number of admitted requests not yet reported.  The       *)
(* administrative calls may come at any time.                              *)
(***************************************************************************)
\* A call that took BREAKER to b2; the record of the calls that the
\* properties of Spec use is not kept here.
HostCall(b2) ==
    /\ ~panicked
    /\ BREAKER' = b2
    /\ UNCHANGED <<op, args, ret, panicked, pre_state, prev_op, fail_run,
                   succ_run, admitted, fail_mix>>

HostAllow ==
    \E t \in Times :
        LET out == allow_request(BREAKER, t)
        IN  /\ out.result => pending < MaxPending
            /\ HostCall(out.breaker)
            /\ pending' = IF out.result THEN pending + 1 ELSE pending

\* allow_request panics in a build with overflow checks
HostAllowPanic ==
    \E t \in Times :
        /\ ~panicked
        /\ sub_overflows(BREAKER, t)
        /\ panicked' = TRUE
        /\ UNCHANGED <<BREAKER, op, args, ret, pre_state, prev_op, fail_run,
                       succ_run, admitted, fail_mix, pending>>

HostSuccess ==
    /\ pending > 0
    /\ BREAKER.success_count < MaxCount
    /\ HostCall(record_success(BREAKER))
    /\ pending' = pending - 1

HostFailure ==
    \E t \in Times :
        /\ pending > 0
        /\ BREAKER.failure_count < MaxCount
        /\ HostCall(record_failure(BREAKER, t))
        /\ pending' = pending - 1

HostReport == HostSuccess \/ HostFailure

HostInitBreaker ==
    \E f \in Thresholds, r \in Timeouts :
        HostCall(init_breaker(BREAKER, f, r)) /\ UNCHANGED pending

HostForceOpen ==
    \E t \in Times :
        HostCall(force_open(BREAKER, t)) /\ UNCHANGED pending

HostResetBreaker ==
    HostCall(reset_breaker(BREAKER)) /\ UNCHANGED pending

HostNext ==
    \/ HostAllow
    \/ HostAllowPanic
    \/ HostSuccess
    \/ HostFailure
    \/ HostInitBreaker
    \/ HostForceOpen
    \/ HostResetBreaker

\* The host keeps calling allow_request and reports every outcome.
HostSpec ==
    /\ Init
    /\ [][HostNext]_vars
    /\ WF_vars(HostAllow)
    /\ WF_vars(HostReport)

TypeOK ==
    /\ BREAKER.state \in BreakerState
    /\ BREAKER.failure_count \in 0..MaxCount
    /\ BREAKER.success_count \in 0..MaxCount
    /\ BREAKER.failure_threshold \in Thresholds \cup {5}
    /\ BREAKER.recovery_timeout \in Timeouts \cup {60}
    /\ BREAKER.last_failure_time \in {None} \cup {Some(t) : t \in Times}
    /\ BREAKER.half_open_calls \in 0..half_open_max
    /\ panicked \in BOOLEAN

(***************************************************************************)
(* Properties.                                                             *)
(***************************************************************************)
\* the timestamp of the last call, for the calls that take one
LastTime == args[1]
\* the recorded failure time, where there is one
FailTime == BREAKER.last_failure_time[1]
\* first timestamp at which recovery_timeout seconds have passed since FailTime
RecoveryTime == FailTime + BREAKER.recovery_timeout * 1000

\* C1 (threshold trip): with failure_threshold = N >= 1, as long as fewer
\* than N record_failure calls were made since the breaker was Closed with
\* failure_count = 0 (only allow_request calls in between) the breaker is
\* Closed and allow_request returns true; the N-th record_failure opens the
\* breaker, and an allow_request at a time t of the recovery window,
\* FailTime <= t < FailTime + recovery_timeout*1000, returns false.
C1_ThresholdTrip ==
    LET N == BREAKER.failure_threshold
    IN  (N >= 1 /\ fail_run >= 0) =>
          /\ fail_run < N =>
                /\ BREAKER.state = Closed
                /\ op = "allow_request" => ret = <<TRUE>>
          /\ (fail_run = N /\ op = "record_failure") => BREAKER.state = Open
          /\ ( /\ fail_run = N
               /\ op = "allow_request"
               /\ pre_state = Open
               /\ FailTime <= LastTime
               /\ LastTime < RecoveryTime ) =>
                /\ ret = <<FALSE>>
                /\ BREAKER.state = Open

\* C1 witness: the second of two failures tripped a breaker of threshold 2
\* and the allow_request after it was refused.
C1_Witness ==
    /\ BREAKER.failure_threshold = 2
    /\ fail_run = 2
    /\ op = "allow_request"
    /\ pre_state = Open
    /\ FailTime <= LastTime
    /\ LastTime < RecoveryTime
    /\ ret = <<FALSE>>

\* C2 (recovery timing): an allow_request(t) made while Open with
\* last_failure_time = T returns false and stays Open for every
\* t < T + recovery_timeout*1000, timestamps below T included, and moves to
\* HalfOpen and returns true for every t >= T + recovery_timeout*1000.
C2_RecoveryTiming ==
    ( /\ op = "allow_request"
      /\ pre_state = Open
      /\ BREAKER.last_failure_time # None ) =>
        /\ LastTime < RecoveryTime =>
              /\ ~panicked
              /\ ret = <<FALSE>>
              /\ BREAKER.state = Open
        /\ LastTime >= RecoveryTime =>
              /\ BREAKER.state = HalfOpen
              /\ ret = <<TRUE>>

\* C3 (force_open overrides), as claimed: force_open(t) leaves state = Open
\* and last_failure_time = t, and an allow_request(t) right after it returns
\* false, for every recovery_timeout, zero included.
C3_ForceOpenOverrides ==
    /\ op = "force_open" =>
          /\ BREAKER.state = Open
          /\ BREAKER.last_failure_time = Some(LastTime)
    /\ ( /\ prev_op = "force_open"
         /\ op = "allow_request"
         /\ pre_state = Open
         /\ BREAKER.last_failure_time = Some(LastTime) ) =>
          ret = <<FALSE>>

\* C3 as amended: the same, for the allow_request part only when
\* recovery_timeout >= 1.
C3_ForceOpenOverridesPositiveTimeout ==
    /\ op = "force_open" =>
          /\ BREAKER.state = Open
          /\ BREAKER.last_failure_time = Some(LastTime)
    /\ ( /\ prev_op = "force_open"
         /\ op = "allow_request"
         /\ BREAKER.recovery_timeout >= 1 ) =>
          /\ BREAKER.last_failure_time # None
          /\ FailTime = LastTime => ret = <<FALSE>>

\* C3 witness: a HalfOpen breaker was forced open at t and the
\* allow_request(t) after it was refused.
C3_Witness ==
    /\ prev_op = "force_open"
    /\ op = "allow_request"
    /\ BREAKER.recovery_timeout >= 1
    /\ BREAKER.last_failure_time = Some(LastTime)
    /\ BREAKER.half_open_calls > 0
    /\ ret = <<FALSE>>

\* C4 (half-open trial cap): in one continuous stay in HalfOpen at most
\* half_open_max allow_request calls return true (so every further one
\* returns false), and half_open_calls <= half_open_max while HalfOpen.
C4_HalfOpenTrialCap ==
    /\ admitted <= half_open_max
    /\ BREAKER.state = HalfOpen => BREAKER.half_open_calls <= half_open_max

\* C4 witness: after half_open_max admissions and a success in between, an
\* allow_request in the same stay was refused.
C4_Witness ==
    /\ BREAKER.state = HalfOpen
    /\ pre_state = HalfOpen
    /\ admitted = half_open_max
    /\ BREAKER.success_count > 0
    /\ op = "allow_request"
    /\ ret = <<FALSE>>

\* C5 (half-open close), as claimed: half_open_max consecutive
\* record_success calls from any HalfOpen state leave the breaker Closed with
\* failure_count = 0 and success_count = 0.
C5_HalfOpenClose ==
    (succ_run # <<>> /\ succ_run[1] = half_open_max) =>
        /\ BREAKER.state = Closed
        /\ BREAKER.failure_count = 0
        /\ BREAKER.success_count = 0

\* C5 as amended: the same, from a HalfOpen state with success_count = 0.
C5_HalfOpenCloseFromZero ==
    succ_run = <<half_open_max, 0>> =>
        /\ BREAKER.state = Closed
        /\ BREAKER.failure_count = 0
        /\ BREAKER.success_count = 0

\* C5 witness: three successes in a row closed a HalfOpen breaker that had
\* success_count = 0.
C5_Witness ==
    /\ succ_run = <<half_open_max, 0>>
    /\ op = "record_success"
    /\ pre_state = HalfOpen
    /\ BREAKER.state = Closed

\* C6 (half-open re-trip): a record_failure(t) made in HalfOpen leaves
\* state = Open and last_failure_time = t, whatever failure_threshold and
\* failure_count are.
C6_HalfOpenRetrip ==
    (op = "record_failure" /\ pre_state = HalfOpen) =>
        /\ BREAKER.state = Open
        /\ BREAKER.last_failure_time = Some(LastTime)

\* C6 witness: a failure in HalfOpen opened the breaker with failure_count
\* still below failure_threshold.
C6_Witness ==
    /\ op = "record_failure"
    /\ pre_state = HalfOpen
    /\ BREAKER.state = Open
    /\ BREAKER.failure_count < BREAKER.failure_threshold

\* C7 (reset): reset_breaker leaves state = Closed, the three counters 0 and
\* last_failure_time unset; an allow_request right after it returns true for
\* every timestamp; a second reset_breaker changes nothing.
C7_Reset ==
    [][ /\ op' = "reset_breaker" =>
              /\ BREAKER'.state = Closed
              /\ BREAKER'.failure_count = 0
              /\ BREAKER'.success_count = 0
              /\ BREAKER'.half_open_calls = 0
              /\ BREAKER'.last_failure_time = None
        /\ (op = "reset_breaker" /\ op' = "allow_request") =>
              ret' = <<TRUE>>
        /\ (op = "reset_breaker" /\ op' = "reset_breaker") =>
              BREAKER' = BREAKER ]_vars

\* C7 witness: a reset breaker admitted the request that followed the
\* reset, with nothing left of earlier failures or trials.
C7_Witness ==
    /\ prev_op = "reset_breaker"
    /\ op = "allow_request"
    /\ ret = <<TRUE>>
    /\ BREAKER.state = Closed
    /\ BREAKER.last_failure_time = None
    /\ BREAKER.half_open_calls = 0

\* C8 (no operation can fail): no call panics, and the subtraction
\* current_time_ms - last_failure_time of allow_request is never evaluated
\* with current_time_ms < last_failure_time.
C8_NoOperationFails ==
    /\ ~panicked
    /\ ~ ( /\ op = "allow_request"
           /\ pre_state = Open
           /\ BREAKER.last_failure_time # None
           /\ LastTime < FailTime )

\* C9 (configure): init_breaker(f, r) leaves failure_threshold = f,
\* recovery_timeout = r, state = Closed and failure_count = success_count = 0,
\* and the allow_request after it returns true.
C9_Configure ==
    [][ /\ op' = "init_breaker" =>
              /\ BREAKER'.failure_threshold = args'[1]
              /\ BREAKER'.recovery_timeout = args'[2]
              /\ BREAKER'.state = Closed
              /\ BREAKER'.failure_count = 0
              /\ BREAKER'.success_count = 0
        /\ (op = "init_breaker" /\ op' = "allow_request") =>
              ret' = <<TRUE>> ]_vars

\* C9 witness: a breaker that had recorded a failure and used up trials was
\* configured, and admitted the next request.
C9_Witness ==
    /\ prev_op = "init_breaker"
    /\ op = "allow_request"
    /\ ret = <<TRUE>>
    /\ BREAKER.last_failure_time # None
    /\ BREAKER.half_open_calls = half_open_max

\* C10 (entry to HalfOpen): the state becomes HalfOpen only by an
\* allow_request(t) made in Open with t at least recovery_timeout whole
\* seconds after last_failure_time, and an allow_request made in HalfOpen
\* resets neither half_open_calls nor success_count.
C10_HalfOpenEntry ==
    [][ /\ (BREAKER.state # HalfOpen /\ BREAKER'.state = HalfOpen) =>
              /\ op' = "allow_request"
              /\ BREAKER.state = Open
              /\ BREAKER.last_failure_time # None
              /\ args'[1] >= FailTime
              /\ (args'[1] - FailTime) \div 1000 >= BREAKER.recovery_timeout
        /\ (BREAKER.state = HalfOpen /\ op' = "allow_request") =>
              /\ BREAKER'.state = HalfOpen
              /\ BREAKER'.half_open_calls >= BREAKER.half_open_calls
              /\ BREAKER'.success_count = BREAKER.success_count ]_vars

\* C11 (counter reset), as claimed: when an operation moves the state away
\* from the state in which a counter accumulated, the counter is 0
\* afterwards: failure_count on leaving Closed, success_count and
\* half_open_calls on leaving HalfOpen.
C11_CounterResetOnLeaving ==
    /\ (pre_state = Closed /\ BREAKER.state # Closed) =>
          BREAKER.failure_count = 0
    /\ (pre_state = HalfOpen /\ BREAKER.state # HalfOpen) =>
          /\ BREAKER.success_count = 0
          /\ BREAKER.half_open_calls = 0

\* C11 as amended: the counters are reset when the state in which they
\* accumulate is entered: failure_count is 0 when the state becomes Closed;
\* when it becomes HalfOpen success_count is 0 and half_open_calls counts
\* only the trial that the entering allow_request grants.
C11_CounterResetOnEntering ==
    /\ (pre_state # Closed /\ BREAKER.state = Closed) =>
          BREAKER.failure_count = 0
    /\ (pre_state # HalfOpen /\ BREAKER.state = HalfOpen) =>
          /\ BREAKER.success_count = 0
          /\ BREAKER.half_open_calls = 1

\* C11 witness: a breaker whose failures had opened it entered HalfOpen with
\* fresh trial counters, failure_count still standing.
C11_Witness ==
    /\ op = "allow_request"
    /\ pre_state = Open
    /\ BREAKER.state = HalfOpen
    /\ BREAKER.failure_count > 0
    /\ BREAKER.success_count = 0
    /\ BREAKER.half_open_calls = 1

\* C12 (zero threshold): with failure_threshold = 0, init_breaker leaves the
\* breaker Closed; it stays Closed and allow_request returns true as long as
\* no record_failure was made, and the first record_failure opens it.
C12_ZeroThreshold ==
    BREAKER.failure_threshold = 0 =>
        /\ op = "init_breaker" => (BREAKER.state = Closed /\ fail_mix = 0)
        /\ fail_mix = 0 =>
              /\ BREAKER.state = Closed
              /\ op = "allow_request" => ret = <<TRUE>>
        /\ (fail_mix = 1 /\ op = "record_failure") => BREAKER.state = Open

\* C12 witness: the first failure opened a Closed breaker of threshold 0.
C12_Witness ==
    /\ BREAKER.failure_threshold = 0
    /\ fail_mix = 1
    /\ op = "record_failure"
    /\ pre_state = Closed
    /\ BREAKER.state = Open
    /\ BREAKER.failure_count = 1

\* C13 (reset preserves the configuration): reset_breaker leaves
\* failure_threshold, recovery_timeout and half_open_max as they were.
C13_ResetKeepsConfig ==
    [][ op' = "reset_breaker" =>
          /\ BREAKER'.failure_threshold = BREAKER.failure_threshold
          /\ BREAKER'.recovery_timeout = BREAKER.recovery_timeout
          /\ BREAKER'.half_open_max = BREAKER.half_open_max ]_vars

\* C13 witness: a breaker configured away from the defaults was reset after
\* a configuration and a trip.
C13_Witness ==
    /\ op = "reset_breaker"
    /\ pre_state = Open
    /\ BREAKER.failure_threshold = 1
    /\ BREAKER.recovery_timeout = 1

\* C14 (force_open frame): force_open changes only state and
\* last_failure_time.
C14_ForceOpenFrame ==
    [][ op' = "force_open" =>
          /\ BREAKER'.failure_count = BREAKER.failure_count
          /\ BREAKER'.success_count = BREAKER.success_count
          /\ BREAKER'.half_open_calls = BREAKER.half_open_calls
          /\ BREAKER'.failure_threshold = BREAKER.failure_threshold
          /\ BREAKER'.recovery_timeout = BREAKER.recovery_timeout
          /\ BREAKER'.half_open_max = BREAKER.half_open_max ]_vars

\* C14 witness: force_open was called on a HalfOpen breaker with all three
\* counters above 0, and they still are.
C14_Witness ==
    /\ op = "force_open"
    /\ pre_state = HalfOpen
    /\ BREAKER.failure_count > 0
    /\ BREAKER.success_count > 0
    /\ BREAKER.half_open_calls > 0

\* C15 (Open has a failure time): state = Open implies last_failure_time is
\* set.
C15_OpenHasFailureTime ==
    BREAKER.state = Open => BREAKER.last_failure_time # None

\* C15 witness: right after a reset had cleared last_failure_time, a
\* failure opened the breaker.
C15_Witness ==
    /\ prev_op = "reset_breaker"
    /\ op = "record_failure"
    /\ BREAKER.state = Open
    /\ BREAKER.last_failure_time = Some(LastTime)

\* C16 (closing): the state changes from a non-Closed state to Closed only
\* by reset_breaker, by init_breaker, or by a record_success made in HalfOpen
\* that brings success_count to half_open_max; Open goes to Closed only by
\* reset_breaker or init_breaker; Closed never goes to HalfOpen.
C16_ClosesOnlyByProbeOrAdmin ==
    [][ /\ (BREAKER.state # Closed /\ BREAKER'.state = Closed) =>
              \/ op' \in {"reset_breaker", "init_breaker"}
              \/ /\ op' = "record_success"
                 /\ BREAKER.state = HalfOpen
                 /\ BREAKER.success_count + 1 = half_open_max
        /\ (BREAKER.state = Open /\ BREAKER'.state = Closed) =>
              op' \in {"reset_breaker", "init_breaker"}
        /\ ~(BREAKER.state = Closed /\ BREAKER'.state = HalfOpen) ]_vars

\* C16 witness: a success closed a HalfOpen breaker that had a recorded
\* failure.
C16_Witness ==
    /\ op = "record_success"
    /\ pre_state = HalfOpen
    /\ BREAKER.state = Closed
    /\ BREAKER.last_failure_time # None
    /\ BREAKER.half_open_calls = half_open_max

\* C17 (record_success outside HalfOpen): in Closed and in Open,
\* record_success adds 1 to success_count and changes nothing else; so with
\* failure_threshold = N >= 1, fewer than N failures since Closed with
\* failure_count = 0, with successes and admission checks in between, leave
\* the breaker Closed and the N-th failure opens it.
C17_SuccessOutsideHalfOpen ==
    [][ /\ (BREAKER.state \in {Closed, Open} /\ op' = "record_success") =>
              BREAKER' = [BREAKER EXCEPT !.success_count = @ + 1]
        /\ (BREAKER'.failure_threshold >= 1 /\ fail_mix' >= 0) =>
              /\ fail_mix' < BREAKER'.failure_threshold =>
                    BREAKER'.state = Closed
              /\ ( /\ fail_mix' = BREAKER'.failure_threshold
                   /\ op' = "record_failure" ) =>
                    BREAKER'.state = Open ]_vars

\* C17 witness: two failures with a success between them opened a breaker
\* of threshold 2.
C17_Witness ==
    /\ BREAKER.failure_threshold = 2
    /\ fail_mix = 2
    /\ fail_run = -1
    /\ op = "record_failure"
    /\ prev_op = "record_success"
    /\ pre_state = Closed
    /\ BREAKER.state = Open
    /\ BREAKER.success_count > 0

\* C19: state = HalfOpen implies success_count < half_open_max.
C19_HalfOpenSuccessesBelowMax ==
    BREAKER.state = HalfOpen => BREAKER.success_count < half_open_max

\* C19 witness: a HalfOpen breaker one success short of closing.
C19_Witness ==
    /\ BREAKER.state = HalfOpen
    /\ op = "record_success"
    /\ BREAKER.success_count = half_open_max - 1

\* C20: with failure_threshold >= 1, state = Closed implies
\* failure_count < failure_threshold.
C20_ClosedBelowThreshold ==
    (BREAKER.failure_threshold >= 1 /\ BREAKER.state = Closed) =>
        BREAKER.failure_count < BREAKER.failure_threshold

\* C20 witness: a Closed breaker that has counted a failure and was not
\* tripped by it.
C20_Witness ==
    /\ BREAKER.state = Closed
    /\ op = "record_failure"
    /\ BREAKER.failure_count >= 1
    /\ BREAKER.failure_count < BREAKER.failure_threshold

\* the trial budget of HalfOpen is used up and no admitted request is left
\* to report
Stuck ==
    /\ BREAKER.state = HalfOpen
    /\ BREAKER.half_open_calls >= half_open_max
    /\ pending = 0

\* C18 (no stuck HalfOpen): with a host that reports exactly one outcome for
\* every admitted request and keeps calling allow_request, the breaker is
\* never HalfOpen with the trial budget used up and every admitted request
\* reported, and a HalfOpen breaker eventually leaves HalfOpen.
C18_NoStuckHalfOpen ==
    /\ [](~Stuck)
    /\ (BREAKER.state = HalfOpen) ~> (BREAKER.state # HalfOpen)

\* C18 witness: a HalfOpen breaker has granted its last trial, two
\* successes are in and the third outcome is still to be reported.
C18_Witness ==
    /\ BREAKER.state = HalfOpen
    /\ BREAKER.half_open_calls = half_open_max
    /\ BREAKER.success_count = half_open_max - 1
    /\ pending = 1

====
